---- MODULE Spec2Model ----
(***************************************************************************)
(* Model of src/main.py: wrapper -> parse_kml -> transform_dict_to_csvs.   *)
(*                                                                         *)
(* Text is modelled as sequences of one-character strings, so that strip,  *)
(* split, float() and the float formatting are computed character by       *)
(* character as the Python code computes them.  A Python float is modelled *)
(* by the integer it denotes (all generated numerals are integers).        *)
(***************************************************************************)
EXTENDS Integers, Sequences, FiniteSets, TLC

\* ------------------------------------------------------------------ bounds
MaxEntities == 2   \* Placemarks in a multi-entity document
MaxLines    == 2   \* lines in a LineString coordinate block
MaxFields   == 4   \* comma-separated fields in one coordinate record
MaxKml      == 2   \* *.kml files found in the input directory

\* ------------------------------------------------------- string primitives
Whitespace == {" ", "\n", "\t"}
DigitChars == <<"0", "1", "2", "3", "4", "5", "6", "7", "8", "9">>

IsDigit(c) == \E d \in 1..10 : DigitChars[d] = c
DigitVal(c) == (CHOOSE d \in 1..10 : DigitChars[d] = c) - 1

Min(S) == CHOOSE x \in S : \A y \in S : x <= y
Max(S) == CHOOSE x \in S : \A y \in S : x >= y

ButLast(s) == SubSeq(s, 1, Len(s) - 1)
Reverse(s) == [k \in 1..Len(s) |-> s[Len(s) + 1 - k]]

\* str.strip(): drop leading and trailing whitespace
Strip(s) ==
    LET keep == {k \in 1..Len(s) : s[k] \notin Whitespace}
    IN  IF keep = {} THEN <<>> ELSE SubSeq(s, Min(keep), Max(keep))

\* str.split(sep): never returns an empty list; "" gives [""]
RECURSIVE Split(_, _)
Split(s, sep) ==
    LET at == {k \in 1..Len(s) : s[k] = sep}
    IN  IF at = {} THEN <<s>>
        ELSE <<SubSeq(s, 1, Min(at) - 1)>>
             \o Split(SubSeq(s, Min(at) + 1, Len(s)), sep)

RECURSIVE DecVal(_)
DecVal(s) == IF s = <<>> THEN 0
             ELSE 10 * DecVal(ButLast(s)) + DigitVal(s[Len(s)])

\* float(text): surrounding whitespace is ignored; anything that is not a
\* numeral raises ValueError (ok = FALSE)
Float(s) ==
    LET t == Strip(s)
    IN  IF t # <<>> /\ \A k \in 1..Len(t) : IsDigit(t[k])
        THEN [ok |-> TRUE, val |-> DecVal(t)]
        ELSE [ok |-> FALSE, val |-> 0]

\* [float(i) for i in input]
parse_from_text_to_float(input) ==
    [ok  |-> \A k \in 1..Len(input) : Float(input[k]).ok,
     val |-> [k \in 1..Len(input) |-> Float(input[k]).val]]

RECURSIVE NatToChars(_)
NatToChars(n) == IF n < 10 THEN <<DigitChars[n + 1]>>
                 ELSE NatToChars(n \div 10) \o <<DigitChars[(n % 10) + 1]>>

\* f"{i}" for a float holding an integer value: "112.0"
FloatToStr(x) == NatToChars(x) \o <<".", "0">>

\* out_put += f"{i},"  for every i;  return out_put[:-1]
RECURSIVE AppendAll(_)
AppendAll(input) ==
    IF input = <<>> THEN <<>>
    ELSE FloatToStr(input[1]) \o <<",">> \o AppendAll(Tail(input))

parse_list_float_to_str(input) == ButLast(AppendAll(input))

\* ------------------------------------------------- documents (the inputs)
\* A coordinate record "f1,f2,...,fn": n fields, all numerals except possibly
\* one (the first or the last) which is the text "x" or the empty text.
RecShapes ==
    {r \in [n : 1..MaxFields, bad : {"none", "x", "empty"}, at : {"first", "last"}] :
        (r.bad = "none" \/ r.n = 1) => r.at = "first"}

GoodRec == [n |-> 3, bad |-> "none", at |-> "first"]

\* A coordinates element: absent, present without text, or present with a
\* block of len records, all "lon,lat,alt" except possibly the one at oddAt;
\* pad surrounds the block and indents its lines with whitespace.
AbsentG == [elem |-> FALSE, text |-> FALSE, len |-> 1, oddAt |-> 1,
            odd |-> GoodRec, pad |-> FALSE]
NoTextG == [AbsentG EXCEPT !.elem = TRUE]

Blocks(maxLen) ==
    {g \in [elem : {TRUE}, text : {TRUE}, len : 1..maxLen, oddAt : 1..maxLen,
            odd : RecShapes, pad : BOOLEAN] :
        /\ g.oddAt <= g.len
        /\ g.odd = GoodRec => g.oddAt = 1}

GoodG(len) == [elem |-> TRUE, text |-> TRUE, len |-> len, oddAt |-> 1,
               odd |-> GoodRec, pad |-> FALSE]
BadG == [GoodG(1) EXCEPT !.odd = [n |-> 3, bad |-> "x", at |-> "first"]]

NameShapes == {"absent", "empty", "A B", "a_b"}

\* single-Placemark documents with every coordinate shape
RichEntities ==
    {[name |-> "A B", pt |-> g, ln |-> AbsentG] : g \in Blocks(1) \cup {NoTextG}}
    \cup {[name |-> "A B", pt |-> AbsentG, ln |-> g] :
             g \in Blocks(MaxLines) \cup {NoTextG, AbsentG}}
    \cup {[name |-> "A B", pt |-> g, ln |-> GoodG(1)] : g \in {GoodG(1), BadG}}

\* Placemarks of the multi-entity documents: every name, good and bad geometry
CoreEntities ==
    {[name |-> nm, pt |-> g, ln |-> AbsentG] :
        nm \in NameShapes, g \in {GoodG(1), BadG}}
    \cup {[name |-> nm, pt |-> AbsentG, ln |-> g] :
        nm \in NameShapes, g \in {GoodG(MaxLines), BadG}}

SeqsUpTo(S, n) == UNION {[1..m -> S] : m \in 0..n}

DocShapes == SeqsUpTo(CoreEntities, MaxEntities) \cup {<<e>> : e \in RichEntities}

\* the numeral of field k of line l of entity e is the three digits e l k
FieldVal(e, l, k) == 100 * e + 10 * l + k
Numeral(e, l, k) == <<DigitChars[e + 1], DigitChars[l + 1], DigitChars[k + 1]>>

BadAt(r) == IF r.bad = "none" THEN 0 ELSE IF r.at = "first" THEN 1 ELSE r.n

FieldText(r, e, l, k) ==
    IF k # BadAt(r) THEN Numeral(e, l, k)
    ELSE IF r.bad = "x" THEN <<"x">> ELSE <<>>

RECURSIVE Join(_, _)
Join(parts, sep) ==
    IF Len(parts) = 0 THEN <<>>
    ELSE IF Len(parts) = 1 THEN parts[1]
    ELSE parts[1] \o sep \o Join(Tail(parts), sep)

RecOf(g, l) == IF l = g.oddAt THEN g.odd ELSE GoodRec

RecText(r, e, l) == Join([k \in 1..r.n |-> FieldText(r, e, l, k)], <<",">>)

BlockText(g, e) ==
    LET lines == [l \in 1..g.len |-> RecText(RecOf(g, l), e, l)]
    IN  IF g.pad
        THEN <<"\n", " ">> \o Join(lines, <<"\n", " ">>) \o <<"\n", " ">>
        ELSE Join(lines, <<"\n">>)

\* what ElementTree hands to the code for one element: found or not, and its
\* .text (None when the element has no text)
None == [none |-> TRUE, s |-> <<>>]
Str(s) == [none |-> FALSE, s |-> s]

\* (an element whose text is empty has .text None, never "")
CoordElem(g, e) ==
    [elem |-> g.elem,
     text |-> IF g.elem /\ g.text /\ BlockText(g, e) # <<>>
              THEN Str(BlockText(g, e)) ELSE None]

NameElem(nm) ==
    CASE nm = "absent" -> [elem |-> FALSE, text |-> None]
      [] nm = "empty"  -> [elem |-> TRUE, text |-> None]
      [] nm = "A B"    -> [elem |-> TRUE, text |-> Str(<<"A", " ", "B">>)]
      [] OTHER         -> [elem |-> TRUE, text |-> Str(<<"a", "_", "b">>)]

Render(sh) ==
    [e \in 1..Len(sh) |->
        [name  |-> NameElem(sh[e].name),
         point |-> CoordElem(sh[e].pt, e),
         line  |-> CoordElem(sh[e].ln, e)]]

\* ------------------------------------------------------------------ state
VARIABLES
    pc,              \* control point of the run
    caller,          \* "wrapper", or "direct" when the functions are called directly
    env,             \* wrapper's arguments and the file-system facts it queries
    path_exists,     \* whether the path handed to parse_kml names a file
    use_logger,      \* parse_kml's diagnostics flag
    shape,           \* the shape the document was generated from
    doc,             \* root.findall('.//kml:Placemark'): the Placemarks
    i,               \* index of the next Placemark
    output_dict,     \* {'points': ..., 'route': ...}, each an insertion-ordered dict
    log,             \* records given to logger_object
    warned,          \* indexes of the Placemarks that caused warnings.warn
    parses,          \* number of times parse_kml was entered
    target_key,      \* transform_dict_to_csvs' selector
    dir_ready,       \* output_directory is known to exist
    j,               \* index of the next entry of objective_dict
    files,           \* files opened by the emission: stem -> lines written
    err              \* the exception that ended the run ("none" if none)

vars == <<pc, caller, env, path_exists, use_logger, shape, doc, i, output_dict,
          log, warned, parses, target_key, dir_ready, j, files, err>>

parseVars == <<shape, doc, i, output_dict, log, warned>>
emitVars  == <<target_key, dir_ready, j, files>>

NoEnv == [dirExists |-> TRUE, given |-> TRUE, nKml |-> 0,
          checked |-> FALSE, parsed |-> FALSE]

\* wrapper's inputs.  dirExists: path_to_directory exists.  given: file_name is
\* passed.  nKml: files that glob("*.kml") finds (the glob only runs when no
\* file_name is passed).  checked: Path(file_name).exists(), the path as given
\* (relative to the working directory).  parsed: path_to_directory / file_name
\* names a file.  An absolute file_name makes checked = parsed; a file found
\* by the glob in a relative directory is joined to the directory twice, so
\* parsed may be FALSE there.
Envs ==
    {e \in [dirExists : BOOLEAN, given : BOOLEAN, nKml : 0..MaxKml,
            checked : BOOLEAN, parsed : BOOLEAN] :
        /\ e.given => e.nKml = 0
        /\ ~e.dirExists => e.nKml = 0 /\ (e.parsed => e.checked)
        /\ ~e.given => ~e.checked
        /\ (~e.given /\ e.nKml = 0) => ~e.parsed}

EmptyDict == <<>>

Init ==
    /\ pc = "call"
    /\ caller = "none"
    /\ env = NoEnv
    /\ path_exists = FALSE
    /\ use_logger = FALSE
    /\ shape = <<>>
    /\ doc = <<>>
    /\ i = 1
    /\ output_dict = [points |-> EmptyDict, route |-> EmptyDict]
    /\ log = <<>>
    /\ warned = <<>>
    /\ parses = 0
    /\ target_key = "route"
    /\ dir_ready = FALSE
    /\ j = 1
    /\ files = <<>>
    /\ err = "none"

\* ---------------------------------------------------------------- wrapper
\* lines 121-137: the configuration checks
ConfigError(e) ==
    IF ~e.dirExists THEN TRUE
    ELSE IF ~e.given THEN e.nKml = 0 \/ e.nKml > 1
    ELSE ~e.checked

wrapper(e, lg) ==
    /\ pc = "call"
    /\ caller' = "wrapper"
    /\ env' = e
    /\ use_logger' = lg
    /\ path_exists' = e.parsed
    /\ pc' = IF ConfigError(e) THEN "raised" ELSE "parse_kml"
    /\ err' = IF ConfigError(e) THEN "ConfigError" ELSE "none"
    /\ UNCHANGED <<parseVars, emitVars, parses>>

\* parse_kml called directly by a user of the module
call_parse_kml(exists, lg) ==
    /\ pc = "call"
    /\ caller' = "direct"
    /\ use_logger' = lg
    /\ path_exists' = exists
    /\ pc' = "parse_kml"
    /\ UNCHANGED <<env, parseVars, emitVars, parses, err>>

\* -------------------------------------------------------------- parse_kml
Unnamed == <<"U", "n", "n", "a", "m", "e", "d">>

\* line 64: the name element's text (None when it is empty), "Unnamed" only
\* when there is no name element
NameOf(pm) == IF pm.name.elem THEN pm.name.text ELSE Str(Unnamed)

\* dict[key] = value on an insertion-ordered dict: an existing key keeps its place
DictHas(d, key) == \E k \in 1..Len(d) : d[k].key = key
DictGet(d, key) == d[CHOOSE k \in 1..Len(d) : d[k].key = key].value
\* (faulty variant of DictSet: an existing key keeps its first value)
DictSet_KeepFirst(d, key, value) ==
    IF DictHas(d, key) THEN d ELSE Append(d, [key |-> key, value |-> value])

DictSet(d, key, value) ==
    IF DictHas(d, key)
    THEN [k \in 1..Len(d) |-> IF d[k].key = key
                              THEN [key |-> key, value |-> value] ELSE d[k]]
    ELSE Append(d, [key |-> key, value |-> value])

\* line 71: [float(i) for i in point.text.strip().split(',')][:-1]
PointValue(text) ==
    LET fl == parse_from_text_to_float(Split(Strip(text), ","))
    IN  [ok |-> fl.ok, val |-> ButLast(fl.val)]

\* (faulty variant of LineValue: the pairs are left in longitude, latitude order)
LineValue_NoReverse(text) ==
    LET lines == Split(Strip(text), "\n")
        pair(l) == parse_from_text_to_float(ButLast(Split(Strip(lines[l]), ",")))
    IN  [ok  |-> \A l \in 1..Len(lines) : pair(l).ok,
         val |-> [l \in 1..Len(lines) |-> pair(l).val]]

\* line 83: [parse_from_text_to_float(i.strip().split(',')[:-1][::-1])
\*           for i in line.text.strip().split('\n')]
LineValue(text) ==
    LET lines == Split(Strip(text), "\n")
        pair(l) == parse_from_text_to_float(
                       Reverse(ButLast(Split(Strip(lines[l]), ","))))
    IN  [ok  |-> \A l \in 1..Len(lines) : pair(l).ok,
         val |-> [l \in 1..Len(lines) |-> pair(l).val]]

\* lines 68-75 and 80-87: one geometry branch.  With use_logger the text is
\* stripped for the info record before the try (None.strip() raises
\* AttributeError out of parse_kml); inside the try every exception is caught.
Branch(out, kind, name, text, parsed, idx, lg) ==
    IF lg /\ text.none
    THEN [raised |-> TRUE, out |-> out, log |-> <<>>, warned |-> <<>>]
    ELSE IF ~text.none /\ parsed.ok
    THEN [raised |-> FALSE,
          out    |-> [out EXCEPT ![kind] = DictSet(out[kind], name, parsed.val)],
          log    |-> IF lg THEN <<"info">> ELSE <<>>,
          warned |-> <<>>]
    ELSE [raised |-> FALSE, out |-> out,
          log    |-> IF lg THEN <<"info", "error">> ELSE <<>>,
          warned |-> <<idx>>]

\* lines 63-87: the body of the loop for Placemark pm, the idx-th of the document
Placemark(out, pm, idx, lg) ==
    IF pm.point.elem
    THEN Branch(out, "points", NameOf(pm), pm.point.text,
                PointValue(pm.point.text.s), idx, lg)
    ELSE IF pm.line.elem
    THEN Branch(out, "route", NameOf(pm), pm.line.text,
                LineValue(pm.line.text.s), idx, lg)
    ELSE [raised |-> FALSE, out |-> out, log |-> <<>>, warned |-> <<>>]

\* lines 45-62: logger set-up, ET.parse (raises when the file is missing),
\* the empty result
parse_kml_read ==
    /\ pc = "parse_kml"
    /\ parses' = parses + 1
    /\ IF path_exists
       THEN /\ \E sh \in DocShapes : shape' = sh /\ doc' = Render(sh)
            /\ pc' = "placemarks"
            /\ err' = err
       ELSE /\ pc' = "raised"
            /\ err' = "FileNotFoundError"
            /\ UNCHANGED <<shape, doc>>
    /\ UNCHANGED <<caller, env, path_exists, use_logger, i, output_dict, log,
                   warned, emitVars>>

parse_kml_placemark ==
    /\ pc = "placemarks"
    /\ i <= Len(doc)
    /\ LET r == Placemark(output_dict, doc[i], i, use_logger)
       IN  /\ output_dict' = r.out
           /\ log' = log \o r.log
           /\ warned' = warned \o r.warned
           /\ pc' = IF r.raised THEN "raised" ELSE pc
           /\ err' = IF r.raised THEN "AttributeError:strip" ELSE err
    /\ i' = i + 1
    /\ UNCHANGED <<caller, env, path_exists, use_logger, shape, doc, parses,
                   emitVars>>

\* line 88
parse_kml_return ==
    /\ pc = "placemarks"
    /\ i > Len(doc)
    /\ pc' = "parsed"
    /\ UNCHANGED <<caller, env, path_exists, use_logger, parseVars, parses,
                   emitVars, err>>

\* ------------------------------------------------- transform_dict_to_csvs
UpperChars == <<"A", "B", "C", "D", "E", "F", "G", "H", "I", "J", "K", "L", "M",
                "N", "O", "P", "Q", "R", "S", "T", "U", "V", "W", "X", "Y", "Z">>
LowerChars == <<"a", "b", "c", "d", "e", "f", "g", "h", "i", "j", "k", "l", "m",
                "n", "o", "p", "q", "r", "s", "t", "u", "v", "w", "x", "y", "z">>

LowerChar(c) ==
    IF \E k \in 1..26 : UpperChars[k] = c
    THEN LowerChars[CHOOSE k \in 1..26 : UpperChars[k] = c]
    ELSE c

\* line 106: key.replace(" ", "_").lower()
Stem(key) == [k \in 1..Len(key) |-> LowerChar(IF key[k] = " " THEN "_" ELSE key[k])]

\* line 107: f"{key}.csv"
FileName(key) == Stem(key) \o <<".", "c", "s", "v">>

Header == <<"L", "a", "t", "i", "t", "u", "d", ",",
            "L", "o", "n", "g", "i", "t", "u", "d">>

\* lines 110-112: the lines the entry's writes produce, and whether the loop
\* over value ends in a TypeError: an item of a points value is a float, and
\* parse_list_float_to_str iterates its argument
EntryWrites(value, tk) ==
    IF tk = "route"
    THEN [lines |-> <<Header>> \o
                    [k \in 1..Len(value) |-> parse_list_float_to_str(value[k])],
          typeError |-> FALSE]
    ELSE [lines |-> <<Header>>, typeError |-> value # <<>>]

\* open(output_path, "w") creates or truncates the file; each write appends
Written(fs, name, lines) ==
    [x \in DOMAIN fs \cup {name} |-> IF x = name THEN lines ELSE fs[x]]

\* (faulty variant of EmitEntry: an I/O failure removes the files written so far)
EmitEntry_Rollback(fs, entry, tk, fail) ==
    IF entry.key.none
    THEN [files |-> fs, err |-> "AttributeError:replace"]
    ELSE LET w == EntryWrites(entry.value, tk)
             name == FileName(entry.key.s)
         IN  IF fail < Len(w.lines) THEN [files |-> <<>>, err |-> "OSError"]
             ELSE [files |-> Written(fs, name, w.lines),
                   err |-> IF w.typeError THEN "TypeError" ELSE "none"]

\* lines 105-112: one entry.  fail = -1: open fails; 0 <= fail < number of
\* lines: the write after the first fail lines fails; otherwise no I/O failure.
EmitEntry(fs, entry, tk, fail) ==
    IF entry.key.none
    THEN [files |-> fs, err |-> "AttributeError:replace"]
    ELSE LET w == EntryWrites(entry.value, tk)
             name == FileName(entry.key.s)
         IN  IF fail = -1 THEN [files |-> fs, err |-> "OSError"]
             ELSE IF fail < Len(w.lines)
             THEN [files |-> Written(fs, name, SubSeq(w.lines, 1, fail)),
                   err |-> "OSError"]
             ELSE [files |-> Written(fs, name, w.lines),
                   err |-> IF w.typeError THEN "TypeError" ELSE "none"]

\* lines 100-104: the destination is created when absent (mkdir may fail)
transform_dict_to_csvs_start(tk, exists, made) ==
    /\ pc = "parsed"
    /\ caller = "wrapper" => tk = "route"
    /\ target_key' = tk
    /\ dir_ready' = (exists \/ made)
    /\ pc' = IF exists \/ made THEN "emit" ELSE "raised"
    /\ err' = IF exists \/ made THEN err ELSE "OSError"
    /\ UNCHANGED <<caller, env, path_exists, use_logger, parseVars, parses,
                   j, files>>

transform_dict_to_csvs_entry(fail) ==
    /\ pc = "emit"
    /\ j <= Len(output_dict[target_key])
    /\ LET entry == output_dict[target_key][j]
           r == EmitEntry(files, entry, target_key, fail)
       IN  /\ fail <= Len(EntryWrites(entry.value, target_key).lines)
           /\ files' = r.files
           /\ err' = r.err
           /\ pc' = IF r.err = "none" THEN pc ELSE "raised"
    /\ j' = j + 1
    /\ UNCHANGED <<caller, env, path_exists, use_logger, parseVars, parses,
                   target_key, dir_ready>>

transform_dict_to_csvs_return ==
    /\ pc = "emit"
    /\ j > Len(output_dict[target_key])
    /\ pc' = "done"
    /\ UNCHANGED <<caller, env, path_exists, use_logger, parseVars, parses,
                   emitVars, err>>

\* the most lines one entry can write: the header and one line per pair
MaxWrites == MaxLines + 1

Next ==
    \/ \E e \in Envs, lg \in BOOLEAN : wrapper(e, lg)
    \/ \E exists \in BOOLEAN, lg \in BOOLEAN : call_parse_kml(exists, lg)
    \/ parse_kml_read
    \/ parse_kml_placemark
    \/ parse_kml_return
    \/ \E tk \in {"points", "route"}, exists \in BOOLEAN, made \in BOOLEAN :
           transform_dict_to_csvs_start(tk, exists, made)
    \/ \E fail \in -1..MaxWrites : transform_dict_to_csvs_entry(fail)
    \/ transform_dict_to_csvs_return

Spec == Init /\ [][Next]_vars

\* ------------------------------------------------------------------------
\* What the document shapes say, read off the shape and not off the text.
\* ------------------------------------------------------------------------
RECURSIVE SortedSeq(_)
SortedSeq(S) == IF S = {} THEN <<>> ELSE <<Min(S)>> \o SortedSeq(S \ {Min(S)})

\* point geometry is looked for first (section 4.1 b')
EntityKind(sh) == IF sh.pt.elem THEN "points" ELSE IF sh.ln.elem THEN "route" ELSE "none"
Geom(sh) == IF sh.pt.elem THEN sh.pt ELSE sh.ln

IsBlank(r) == r.n = 1 /\ r.bad = "empty"
HasText(g) == g.elem /\ g.text /\ ~(g.len = 1 /\ IsBlank(g.odd) /\ ~g.pad)
EdgeBlank(g, l) == IsBlank(RecOf(g, l)) /\ g.len > 1 /\ l \in {1, g.len}

\* the specification's reading: a point record has 2 or 3 numeric fields, a
\* line record is "lon,lat,alt" with numeric fields, blank lines are skipped
SpecGoodRec(r, kind) ==
    r.bad = "none" /\ r.n \in (IF kind = "points" THEN {2, 3} ELSE {3})
SpecLines(g) == {l \in 1..g.len : ~IsBlank(RecOf(g, l))}
SpecWellFormed(g, kind) ==
    /\ g.elem /\ g.text /\ SpecLines(g) # {}
    /\ \A l \in SpecLines(g) : SpecGoodRec(RecOf(g, l), kind)
SpecValue(g, e, kind) ==
    IF kind = "points" THEN <<FieldVal(e, 1, 1), FieldVal(e, 1, 2)>>
    ELSE LET ls == SortedSeq(SpecLines(g))
         IN  [p \in 1..Len(ls) |-> <<FieldVal(e, ls[p], 2), FieldVal(e, ls[p], 1)>>]

\* entities of the document of one kind and one key
Entities(kind, key) ==
    {e \in 1..Len(shape) : EntityKind(shape[e]) = kind /\ NameOf(doc[e]) = key}
Keys(kind) ==
    {NameOf(doc[e]) : e \in {x \in 1..Len(shape) : EntityKind(shape[x]) = kind}}
DictKeys(d) == {d[k].key : k \in 1..Len(d)}
Kinds == {"points", "route"}

\* ------------------------------------------------------------------ claims

\* parse_kml on the whole document with the given flag, as one function
RECURSIVE ParseFrom(_, _, _, _)
ParseFrom(out, pms, idx, lg) ==
    IF idx > Len(pms) THEN [raised |-> FALSE, out |-> out]
    ELSE LET r == Placemark(out, pms[idx], idx, lg)
         IN  IF r.raised THEN [raised |-> TRUE, out |-> r.out]
             ELSE ParseFrom(r.out, pms, idx + 1, lg)

ParseEnded == pc = "parsed" \/ (pc = "raised" /\ err = "AttributeError:strip")

\* the entity that the loop has just finished (the run did not raise on it)
JustDone(e) == pc = "placemarks" /\ i = e + 1 /\ e >= 1

\* C1: parse_kml returns for every document and either flag value; entities
\* with malformed coordinate text contribute nothing, and the result holds
\* exactly the well-formed entities, each with its correct value.
C1_MalformedIsolated ==
    /\ ParseEnded => pc = "parsed"
    /\ pc = "parsed" =>
         \A kind \in Kinds :
            LET good(key) == {e \in Entities(kind, key) :
                                 SpecWellFormed(Geom(shape[e]), kind)}
            IN  /\ DictKeys(output_dict[kind]) = {key \in Keys(kind) : good(key) # {}}
                /\ \A key \in DictKeys(output_dict[kind]) :
                      good(key) # {} =>
                        DictGet(output_dict[kind], key)
                          = SpecValue(Geom(shape[Max(good(key))]), Max(good(key)), kind)

\* C2: the run with the other value of use_logger has the same outcome: it
\* returns exactly when this run returns, with equal points and route.
C2_LoggerIndependent ==
    ParseEnded =>
        LET other == ParseFrom([points |-> EmptyDict, route |-> EmptyDict],
                               doc, 1, ~use_logger)
        IN  /\ other.raised = (pc = "raised")
            /\ pc = "parsed" => other.out = output_dict

\* C3: every pair of every route entry has length 2, and a line entity whose
\* block has a malformed line (a blank line inside the block, a field count
\* other than 3, a non-numeric field) leaves no route entry.
C3MalformedLine(g, l) ==
    LET r == RecOf(g, l)
    IN  IF IsBlank(r) THEN 1 < l /\ l < g.len
        ELSE r.n # 3 \/ r.bad # "none"

C3_RoutePairs ==
    /\ \A k \in 1..Len(output_dict.route) :
          \A p \in 1..Len(output_dict.route[k].value) :
             Len(output_dict.route[k].value[p]) = 2
    /\ \A e \in 1..Len(shape) :
          (/\ JustDone(e)
           /\ EntityKind(shape[e]) = "route"
           /\ HasText(shape[e].ln)
           /\ \E l \in 1..shape[e].ln.len : C3MalformedLine(shape[e].ln, l)
           /\ Entities("route", NameOf(doc[e])) \cap 1..e = {e})
          => ~DictHas(output_dict.route, NameOf(doc[e]))

\* C4: a point entity whose text is a record of 2 or 3 numeric fields is
\* stored as [first field, second field].
C4_PointValue ==
    \A e \in 1..Len(shape) :
        (/\ JustDone(e)
         /\ EntityKind(shape[e]) = "points"
         /\ SpecWellFormed(shape[e].pt, "points"))
        => /\ DictHas(output_dict.points, NameOf(doc[e]))
           /\ DictGet(output_dict.points, NameOf(doc[e]))
                = <<FieldVal(e, 1, 1), FieldVal(e, 1, 2)>>

\* C5: a line entity whose block consists of "lon,lat,alt" records with
\* numeric fields (indented or not, with or without a blank first or last
\* line) is stored as the pairs [lat, lon], one per record, in block order.
C5Block(g) ==
    /\ g.elem /\ g.text /\ SpecLines(g) # {}
    /\ \A l \in 1..g.len : RecOf(g, l) = GoodRec \/ EdgeBlank(g, l)

C6ClaimName(nm) ==
    CASE nm \in {"absent", "empty"} -> Unnamed
      [] nm = "A B" -> <<"A", " ", "B">>
      [] OTHER -> <<"a", "_", "b">>

C6_StringNames ==
    /\ \A kind \in Kinds : \A k \in 1..Len(output_dict[kind]) :
          ~output_dict[kind][k].key.none /\ output_dict[kind][k].key.s # <<>>
    /\ \A e \in 1..Len(shape) :
          (/\ JustDone(e)
           /\ EntityKind(shape[e]) # "none"
           /\ \A k \in 1..Len(warned) : warned[k] # e)
          => DictHas(output_dict[EntityKind(shape[e])], Str(C6ClaimName(shape[e].name)))

\* What the code stores for a geometry, read off its shape: a point text is
\* stored when all its fields are numerals, without its last field; a line
\* block is stored when each line's fields but the last are numerals, as the
\* reversed fields-but-last of each line, blank first and last lines dropped.
Stored(g, kind) ==
    /\ HasText(g)
    /\ IF kind = "points" THEN g.odd.bad = "none"
       ELSE \A l \in 1..g.len : BadAt(RecOf(g, l)) \in {0, RecOf(g, l).n}
StoredValue(g, e, kind) ==
    IF kind = "points" THEN [k \in 1..(g.odd.n - 1) |-> FieldVal(e, 1, k)]
    ELSE LET ls == SortedSeq({l \in 1..g.len : ~EdgeBlank(g, l)})
         IN  [p \in 1..Len(ls) |->
                [k \in 1..(RecOf(g, ls[p]).n - 1) |->
                    FieldVal(e, ls[p], RecOf(g, ls[p]).n - k)]]

\* C7 as claimed: when several entities of one kind share a name, the result
\* holds for the name the value of the last of them in document order.
C7_LastEntityWins ==
    pc = "parsed" =>
        \A kind \in Kinds : \A key \in {x \in Keys(kind) : ~x.none} :
            Cardinality(Entities(kind, key)) >= 2 =>
                LET last == Max(Entities(kind, key))
                    d == output_dict[kind]
                IN  /\ Stored(Geom(shape[last]), kind) => DictHas(d, key)
                    /\ DictHas(d, key) =>
                         DictGet(d, key) = StoredValue(Geom(shape[last]), last, kind)

\* C7 as amended: the result holds for each name the value of the last entity
\* of that kind and name whose coordinate text parsed; a later entity whose
\* text fails to parse leaves the earlier value in place, and a name none of
\* whose entities parsed has no entry.
C7_LastStoredWins ==
    pc = "parsed" =>
        \A kind \in Kinds :
            LET stored(key) == {e \in Entities(kind, key) :
                                   Stored(Geom(shape[e]), kind)}
                d == output_dict[kind]
            IN  /\ DictKeys(d) = {key \in Keys(kind) : stored(key) # {}}
                /\ \A key \in DictKeys(d) :
                      stored(key) # {} =>
                        DictGet(d, key)
                          = StoredValue(Geom(shape[Max(stored(key))]),
                                        Max(stored(key)), kind)

C7_Witness ==
    /\ pc = "parsed"
    /\ Len(shape) = 2
    /\ shape[1] = [name |-> "A B", pt |-> GoodG(1), ln |-> AbsentG]
    /\ shape[2] = shape[1]
    /\ output_dict.points = <<[key |-> Str(<<"A", " ", "B">>), value |-> <<211, 212>>]>>

\* C8: when transform_dict_to_csvs completes, the destination exists, the
\* files written are exactly stem(name).csv for the names of the selected
\* mapping, and each holds the header followed by one "<num>,<num>" line per
\* pair of the last entry with that stem.
C8LastWithStem(d, k) ==
    \A m \in (k + 1)..Len(d) : FileName(d[m].key.s) # FileName(d[k].key.s)

C8_Files ==
    pc = "done" =>
        LET d == output_dict[target_key]
        IN  /\ dir_ready
            /\ DOMAIN files = {FileName(d[k].key.s) : k \in 1..Len(d)}
            /\ \A k \in 1..Len(d) :
                  C8LastWithStem(d, k) =>
                     LET c == files[FileName(d[k].key.s)]
                         v == d[k].value
                     IN  /\ Len(c) = 1 + Len(v)
                         /\ c[1] = Header
                         /\ \A p \in 1..Len(v) :
                               /\ Len(v[p]) = 2
                               /\ c[p + 1] = FloatToStr(v[p][1]) \o <<",">>
                                               \o FloatToStr(v[p][2])

\* (C8 without the two-numbers-per-line part: each line holds the numbers of
\* its item, however many, joined by commas.  This holds; C8 fails only on
\* items that are not pairs.)
C8_FilesAnyItemLength ==
    pc = "done" =>
        LET d == output_dict[target_key]
        IN  /\ dir_ready
            /\ DOMAIN files = {FileName(d[k].key.s) : k \in 1..Len(d)}
            /\ \A k \in 1..Len(d) :
                  C8LastWithStem(d, k) =>
                     LET c == files[FileName(d[k].key.s)]
                         v == d[k].value
                     IN  /\ Len(c) = 1 + Len(v)
                         /\ c[1] = Header
                         /\ \A p \in 1..Len(v) :
                               c[p + 1] = Join([q \in 1..Len(v[p]) |->
                                                   FloatToStr(v[p][q])], <<",">>)

\* C9: wrapper raises a configuration error, before parse_kml is entered,
\* whenever the directory does not exist, the input file does not exist at
\* the path that would be parsed, or the discovery finds zero or several
\* files; when the directory and the file at the parsed path exist, no
\* configuration error is raised and parse_kml is entered exactly once.
C9_ConfigChecked ==
    caller = "wrapper" =>
        /\ (~env.dirExists \/ (env.given /\ ~env.parsed)
               \/ (~env.given /\ env.nKml # 1))
              => err = "ConfigError" /\ parses = 0
        /\ (env.dirExists /\ env.parsed /\ (env.given \/ env.nKml = 1))
              => /\ err # "ConfigError"
                 /\ parses = IF pc = "parse_kml" THEN 0 ELSE 1

\* C10 as claimed: when an I/O failure ends the emission at the k-th entry,
\* every file written for the entries before it is still there with its full
\* content, nothing else is created, and nothing is done after the failure.
IOFailStep == pc = "emit" /\ pc' = "raised" /\ err' = "OSError"
C10Current == FileName(output_dict[target_key][j].key.s)
IsProperPrefix(a, b) == Len(a) < Len(b) /\ a = SubSeq(b, 1, Len(a))

C10_EarlierFilesIntact ==
    [][/\ IOFailStep =>
            /\ DOMAIN files \subseteq DOMAIN files'
            /\ DOMAIN files' \subseteq DOMAIN files \cup {C10Current}
            /\ \A x \in DOMAIN files : files'[x] = files[x]
       /\ pc = "raised" => UNCHANGED vars]_vars

\* C10 as amended: the files of the entries before the k-th are intact except
\* the file the k-th entry itself targets: when an earlier entry has the same
\* stem, that file is either untouched (the open failed) or already truncated
\* and holds only the lines of the k-th entry written before the failure.
C10_OtherFilesIntact ==
    [][/\ IOFailStep =>
            /\ DOMAIN files \subseteq DOMAIN files'
            /\ DOMAIN files' \subseteq DOMAIN files \cup {C10Current}
            /\ \A x \in DOMAIN files \ {C10Current} : files'[x] = files[x]
            /\ C10Current \in DOMAIN files' =>
                  \/ C10Current \in DOMAIN files
                       /\ files'[C10Current] = files[C10Current]
                  \/ IsProperPrefix(files'[C10Current],
                         EntryWrites(output_dict[target_key][j].value,
                                     target_key).lines)
       /\ pc = "raised" => UNCHANGED vars]_vars

C10_Witness ==
    /\ pc = "raised" /\ err = "OSError" /\ dir_ready /\ j = 3
    /\ LET d == output_dict[target_key]
       IN  /\ ~d[1].key.none /\ ~d[2].key.none
           /\ FileName(d[1].key.s) # FileName(d[2].key.s)
           /\ FileName(d[1].key.s) \in DOMAIN files
           /\ Len(d[1].value) >= 1
           /\ Len(files[FileName(d[1].key.s)]) = 1 + Len(d[1].value)

====
